---- MODULE Spec2Model ----
(***************************************************************************)
(* Model of dl_commons.py: the guardable dictionary Properties, the frozen *)
(* property descriptor ParamDesc, the schema-bound container Params and    *)
(* its presence-aware specialisation HyperParams.                          *)
(***************************************************************************)
EXTENDS Integers, Sequences, FiniteSets, TLC

(* ------------------------------ bounds --------------------------------- *)
\* integer property values are 0..MaxVal
MaxVal == 1
\* longest descriptor sequence a caller passes to Params.__init__
MaxDescs == 2

(* ------------------------------ values --------------------------------- *)
\* Python's None, the "no value" marker
None == [t |-> "NoneType", v |-> 0]

PyInt(i) == [t |-> "int", v |-> i]

Values == {None} \cup {PyInt(i) : i \in 0..MaxVal}

\* keys used by callers; "_isFrozen" is also the name of a guard attribute
Keys == {"a", "_isFrozen"}

\* the container instances of one run
Objs == {"o1", "o2"}

\* outcomes of an operation: the exception class raised, with the message
\* where one class is raised for two reasons
Ok == "ok"
AccessDenied == "AccessDeniedError"
KeyNotFound == "KeyError"
InvalidValue == "ValueError: is not a valid value of property"
DuplicateDeclaration == "ValueError: has already been initialized"

\* all mappings from a subset of Keys to Values (dict literals of a caller)
Dicts == UNION {[S -> Values] : S \in SUBSET Keys}

\* dict.__setitem__
DictSet(d, key, val) == [k \in DOMAIN d \cup {key} |-> IF k = key THEN val ELSE d[k]]

(* ---------------------------- Properties ------------------------------- *)
\* a slot no object has been constructed in
Null == [cls |-> "null", d |-> << >>, isFrozen |-> FALSE, isSealed |-> FALSE,
         desc_list |-> << >>, descr_dict |-> << >>]

\* a plain Python dict (an initVals argument, the result of __copy__)
PlainDict(d) == [Null EXCEPT !.cls = "dict", !.d = d]

Properties__init__(d) ==
    [Null EXCEPT !.cls = "Properties", !.d = d, !.isFrozen = FALSE, !.isSealed = FALSE]

\* mutant: the flag is read like an entry, so an entry named "_isFrozen"
\* shadows it
isFrozen_Shadowed(self) ==
    IF "_isFrozen" \in DOMAIN self.d
    THEN self.d["_isFrozen"] \notin {None, PyInt(0)}
    ELSE self.isFrozen

isFrozen(self) == self.isFrozen

isSealed(self) == self.isSealed

freeze(self) == [self EXCEPT !.isFrozen = TRUE]

seal(self) == [self EXCEPT !.isSealed = TRUE]

Properties_get_val_(self, key) ==
    IF key \in DOMAIN self.d
    THEN [err |-> Ok, val |-> self.d[key]]
    ELSE [err |-> KeyNotFound, val |-> None]

\* mutant: a frozen object is treated like a sealed one, existing keys stay
\* writable
Properties_set_val_FrozenAsSealed(self, key, val) ==
    IF (isFrozen(self) \/ isSealed(self)) /\ key \notin DOMAIN self.d
    THEN [err |-> AccessDenied, self |-> self]
    ELSE [err |-> Ok, self |-> [self EXCEPT !.d = DictSet(self.d, key, val)]]

\* mutant: the sealed check is the other way round, new keys may be added
\* and present ones may not be written
Properties_set_val_SealedKeepsValues(self, key, val) ==
    IF isFrozen(self)
    THEN [err |-> AccessDenied, self |-> self]
    ELSE IF isSealed(self) /\ key \in DOMAIN self.d
         THEN [err |-> AccessDenied, self |-> self]
         ELSE [err |-> Ok, self |-> [self EXCEPT !.d = DictSet(self.d, key, val)]]

Properties_set_val_(self, key, val) ==
    IF isFrozen(self)
    THEN [err |-> AccessDenied, self |-> self]
    ELSE IF isSealed(self) /\ key \notin DOMAIN self.d
         THEN [err |-> AccessDenied, self |-> self]
         ELSE [err |-> Ok, self |-> [self EXCEPT !.d = DictSet(self.d, key, val)]]

\* mutant: the copy is of the class of the original and has its guards
Properties__copy__WithGuards(self) == self

Properties__copy__(self) == PlainDict(self.d)

(* ----------------------------- validators ------------------------------ *)
mandatory == [t |-> "_mandatoryValidator"]

instanceof(cls) == [t |-> "instanceof", cls |-> cls]

frange_incl(begin, end) == [t |-> "frange_incl", begin |-> begin, end |-> end]

\* Python 2 ordering of the modelled values: None sorts before every number
PyLE(x, y) ==
    IF x = None THEN TRUE
    ELSE IF y = None THEN FALSE
    ELSE x.v <= y.v

\* isinstance(obj, cls)
IsInstance(obj, cls) == cls = "object" \/ obj.t = cls

\* val in validator
ValidatorContains(validator, val) ==
    CASE validator.t = "_mandatoryValidator" -> val # None
      [] validator.t = "instanceof" -> IsInstance(val, validator.cls)
      [] validator.t = "frange_incl" -> PyLE(val, validator.end) /\ PyLE(validator.begin, val)

(* ------------------------------ ParamDesc ------------------------------ *)
\* mutant: the descriptor is not frozen after initialization
ParamDesc_NotFrozen(name, text, validator, default) ==
    [Properties__init__([name |-> name, text |-> text,
                         validator |-> validator, default |-> default])
     EXCEPT !.cls = "ParamDesc"]

ParamDesc(name, text, validator, default) ==
    freeze([Properties__init__([name |-> name, text |-> text,
                                validator |-> validator, default |-> default])
            EXCEPT !.cls = "ParamDesc"])

\* the descriptors schema authors have declared; a descriptor is shared by
\* reference, so containers hold its position in this sequence
DescPool ==
    << ParamDesc("a", "rate", frange_incl(PyInt(1), PyInt(1)), PyInt(1)),
       ParamDesc("a", "kind", mandatory, None),
       ParamDesc("_isFrozen", "note", None, None),
       ParamDesc("_isFrozen", "hook", instanceof("NoneType"), None) >>

\* the descriptor sequences a caller assembles: up to MaxDescs descriptors,
\* in the order of their declaration, repeats included
DescLists ==
    {s \in UNION {[1..n -> DOMAIN DescPool] : n \in 0..MaxDescs} :
        \A i, j \in DOMAIN s : i < j => s[i] <= s[j]}

(* ------------------------------- state --------------------------------- *)
VARIABLES
    descs,         \* the ParamDesc objects, by reference
    descriptors,   \* the descriptor sequence the caller has assembled
    objs,          \* the container instances, by identity
    last           \* the operation performed last, its arguments and outcome

vars == <<descs, descriptors, objs, last>>

(* ------------------------------- Params -------------------------------- *)
\* a descriptor sequence passed as the prototype argument
DescList(seq) == [Null EXCEPT !.cls = "list", !.desc_list = seq]

\* initVals=None
NoInitVals == [Null EXCEPT !.cls = "NoneType"]

\* isinstance(x, Params); HyperParams derives from Params
IsParams(x) == x.cls \in {"Params", "HyperParams"}

protoS(self) == self.desc_list

protoD(self) == self.descr_dict

isValidName(self, name) == name \in DOMAIN protoD(self).d

Params_get_val_(self, name) ==
    IF ~isValidName(self, name)
    THEN [err |-> KeyNotFound, val |-> None]
    ELSE Properties_get_val_(self, name)

\* mutant: a validated value is stored with dict.__setitem__, past the guards
Params_set_val_PastGuards(self, name, val) ==
    IF ~isValidName(self, name)
    THEN [err |-> KeyNotFound, self |-> self]
    ELSE IF val # None
            /\ descs[protoD(self).d[name]].d.validator # None
            /\ ~ValidatorContains(descs[protoD(self).d[name]].d.validator, val)
         THEN [err |-> InvalidValue, self |-> self]
         ELSE [err |-> Ok, self |-> [self EXCEPT !.d = DictSet(self.d, name, val)]]

\* mutant: the value is not validated
Params_set_val_Unvalidated(self, name, val) ==
    IF ~isValidName(self, name)
    THEN [err |-> KeyNotFound, self |-> self]
    ELSE Properties_set_val_(self, name, val)

\* mutant: the marker is validated like any other value
Params_set_val_MarkerValidated(self, name, val) ==
    IF ~isValidName(self, name)
    THEN [err |-> KeyNotFound, self |-> self]
    ELSE IF descs[protoD(self).d[name]].d.validator # None
            /\ ~ValidatorContains(descs[protoD(self).d[name]].d.validator, val)
         THEN [err |-> InvalidValue, self |-> self]
         ELSE Properties_set_val_(self, name, val)

\* mutant: the value is stored before it is validated
Params_set_val_StoredThenValidated(self, name, val) ==
    IF ~isValidName(self, name)
    THEN [err |-> KeyNotFound, self |-> self]
    ELSE IF val # None
            /\ descs[protoD(self).d[name]].d.validator # None
            /\ ~ValidatorContains(descs[protoD(self).d[name]].d.validator, val)
         THEN [err |-> InvalidValue, self |-> Properties_set_val_(self, name, val).self]
         ELSE Properties_set_val_(self, name, val)

\* mutant: the guards of Properties are consulted before the name
Params_set_val_GuardsFirst(self, name, val) ==
    IF isFrozen(self)
    THEN [err |-> AccessDenied, self |-> self]
    ELSE IF ~isValidName(self, name)
    THEN [err |-> KeyNotFound, self |-> self]
    ELSE IF val # None
            /\ descs[protoD(self).d[name]].d.validator # None
            /\ ~ValidatorContains(descs[protoD(self).d[name]].d.validator, val)
         THEN [err |-> InvalidValue, self |-> self]
         ELSE Properties_set_val_(self, name, val)

Params_set_val_(self, name, val) ==
    IF ~isValidName(self, name)
    THEN [err |-> KeyNotFound, self |-> self]
    ELSE IF val # None
            /\ descs[protoD(self).d[name]].d.validator # None
            /\ ~ValidatorContains(descs[protoD(self).d[name]].d.validator, val)
         THEN [err |-> InvalidValue, self |-> self]
         ELSE Properties_set_val_(self, name, val)

(* ----------------------------- HyperParams ----------------------------- *)
\* mutant: a property without validator is present even when unset
HyperParams_get_val_NoValidatorPresent(self, name) ==
    LET r == Params_get_val_(self, name)
    IN  IF r.err # Ok
        THEN r
        ELSE LET validator == descs[protoD(self).d[name]].d.validator
             IN  IF r.val = None
                    /\ validator # None /\ ~ValidatorContains(validator, None)
                 THEN [err |-> KeyNotFound, val |-> None]
                 ELSE r

\* mutant: the read is the one of Params, the marker is returned as a value
HyperParams_get_val_AsParams(self, name) == Params_get_val_(self, name)

HyperParams_get_val_(self, name) ==
    LET r == Params_get_val_(self, name)
    IN  IF r.err # Ok
        THEN r
        ELSE LET validator == descs[protoD(self).d[name]].d.validator
             IN  IF r.val = None
                    /\ (validator = None \/ ~ValidatorContains(validator, None))
                 THEN [err |-> KeyNotFound, val |-> None]
                 ELSE r

\* mutant: membership is the one of dict, a name is a member when the dict
\* has an entry for it
HyperParams__contains__Stored(self, name) == name \in DOMAIN self.d

HyperParams__contains__(self, name) == HyperParams_get_val_(self, name).err = Ok

(* --------------------- dispatch on the runtime class -------------------- *)
\* obj[key]
GetItem(obj, key) ==
    CASE obj.cls = "HyperParams" -> HyperParams_get_val_(obj, key)
      [] obj.cls = "Params" -> Params_get_val_(obj, key)
      [] OTHER -> Properties_get_val_(obj, key)

\* obj[key] = val
SetItem(obj, key, val) ==
    CASE IsParams(obj) -> Params_set_val_(obj, key, val)
      [] obj.cls = "dict" -> [err |-> Ok, self |-> [obj EXCEPT !.d = DictSet(obj.d, key, val)]]
      [] OTHER -> Properties_set_val_(obj, key, val)

\* the exception that leaves "key in obj": HyperParams.__contains__ only
\* catches KeyError
ContainsErr(obj, key) ==
    IF obj.cls = "HyperParams" /\ HyperParams_get_val_(obj, key).err \notin {Ok, KeyNotFound}
    THEN HyperParams_get_val_(obj, key).err
    ELSE Ok

\* mutant: membership is dict membership for every class
Contains_DictOnly(obj, key) == key \in DOMAIN obj.d

\* key in obj
Contains(obj, key) ==
    IF obj.cls = "HyperParams"
    THEN HyperParams__contains__(obj, key)
    ELSE key \in DOMAIN obj.d

(* --------------------------- Params.__init__ --------------------------- *)
\* mutant: the prototype's value takes precedence over the override
RECURSIVE ScanDescriptors_PrototypeFirst(_, _, _, _, _, _)
ScanDescriptors_PrototypeFirst(descs_, i, props, vals, vals1, vals2) ==
    IF i > Len(descs_)
    THEN [err |-> Ok, props |-> props, vals |-> vals]
    ELSE LET prop == descs[descs_[i]]
             name == prop.d.name
         IN  IF ~Contains(props, name)
             THEN ScanDescriptors_PrototypeFirst(descs_, i + 1,
                      Properties_set_val_(props, name, descs_[i]).self,
                      DictSet(vals, name,
                          IF Contains(vals2, name) THEN GetItem(vals2, name).val
                          ELSE IF Contains(vals1, name) THEN GetItem(vals1, name).val
                          ELSE prop.d.default),
                      vals1, vals2)
             ELSE [err |-> DuplicateDeclaration, props |-> props, vals |-> vals]

\* mutant: a name seen twice is not an error, the later descriptor replaces
\* the earlier one
RECURSIVE ScanDescriptors_LastWins(_, _, _, _, _, _)
ScanDescriptors_LastWins(descs_, i, props, vals, vals1, vals2) ==
    IF i > Len(descs_)
    THEN [err |-> Ok, props |-> props, vals |-> vals]
    ELSE LET prop == descs[descs_[i]]
             name == prop.d.name
         IN  ScanDescriptors_LastWins(descs_, i + 1,
                 Properties_set_val_(props, name, descs_[i]).self,
                 DictSet(vals, name,
                     IF Contains(vals1, name) THEN GetItem(vals1, name).val
                     ELSE IF Contains(vals2, name) THEN GetItem(vals2, name).val
                     ELSE prop.d.default),
                 vals1, vals2)

\* the loop over the descriptors: builds props and _vals, or raises on a
\* name seen twice
RECURSIVE ScanDescriptors(_, _, _, _, _, _)
ScanDescriptors(descs_, i, props, vals, vals1, vals2) ==
    IF i > Len(descs_)
    THEN [err |-> Ok, props |-> props, vals |-> vals]
    ELSE LET prop == descs[descs_[i]]
             name == prop.d.name
         IN  IF ~Contains(props, name)
             THEN ScanDescriptors(descs_, i + 1,
                      Properties_set_val_(props, name, descs_[i]).self,
                      DictSet(vals, name,
                          IF Contains(vals1, name) THEN GetItem(vals1, name).val
                          ELSE IF Contains(vals2, name) THEN GetItem(vals2, name).val
                          ELSE prop.d.default),
                      vals1, vals2)
             ELSE [err |-> DuplicateDeclaration, props |-> props, vals |-> vals]

\* mutant: a property whose resolved value is None is not assigned
RECURSIVE AssignAll_SkipNone(_, _, _, _)
AssignAll_SkipNone(self, vals, order, i) ==
    IF i > Len(order)
    THEN [err |-> Ok, self |-> self]
    ELSE IF vals[order[i]] = None
         THEN AssignAll_SkipNone(self, vals, order, i + 1)
         ELSE LET r == SetItem(self, order[i], vals[order[i]])
              IN  IF r.err # Ok THEN r ELSE AssignAll_SkipNone(r.self, vals, order, i + 1)

\* the loop "for _name, _val in _vals.iteritems(): self[_name] = _val";
\* order is the iteration order of the dict
RECURSIVE AssignAll(_, _, _, _)
AssignAll(self, vals, order, i) ==
    IF i > Len(order)
    THEN [err |-> Ok, self |-> self]
    ELSE LET r == SetItem(self, order[i], vals[order[i]])
         IN  IF r.err # Ok THEN r ELSE AssignAll(r.self, vals, order, i + 1)

\* the iteration orders of a dict with key set S
Orders(S) == {s \in [1..Cardinality(S) -> S] : \A i, j \in DOMAIN s : i # j => s[i] # s[j]}

\* mutant: the new container takes the guards of a prototype container
Params__init__GuardsOfPrototype(cls, prototype, initVals, order) ==
    LET self0 == [Properties__init__(<< >>) EXCEPT !.cls = cls]
        descs_ == IF IsParams(prototype) THEN protoS(prototype) ELSE prototype.desc_list
        vals1 == IF IsParams(prototype)
                 THEN (IF initVals = NoInitVals THEN prototype ELSE initVals)
                 ELSE (IF initVals = NoInitVals THEN PlainDict(<< >>) ELSE initVals)
        vals2 == IF IsParams(prototype) /\ initVals # NoInitVals
                 THEN prototype ELSE PlainDict(<< >>)
        self1 == [self0 EXCEPT !.desc_list = descs_]
        scan == ScanDescriptors(descs_, 1, Properties__init__(<< >>), << >>, vals1, vals2)
    IN  IF scan.err # Ok
        THEN [err |-> scan.err, self |-> self1]
        ELSE LET self2 == [self1 EXCEPT !.descr_dict = freeze(scan.props)]
                 r == AssignAll(self2, scan.vals, order, 1)
             IN  IF r.err # Ok THEN r
                 ELSE [err |-> Ok,
                       self |-> IF IsParams(prototype)
                                THEN [r.self EXCEPT !.isFrozen = isFrozen(prototype),
                                                    !.isSealed = isSealed(prototype)]
                                ELSE seal(r.self)]

\* mutant: the overrides that name no declared property are assigned too
Params__init__OverridesAssigned(cls, prototype, initVals, order) ==
    LET self0 == [Properties__init__(<< >>) EXCEPT !.cls = cls]
        descs_ == IF IsParams(prototype) THEN protoS(prototype) ELSE prototype.desc_list
        vals1 == IF IsParams(prototype)
                 THEN (IF initVals = NoInitVals THEN prototype ELSE initVals)
                 ELSE (IF initVals = NoInitVals THEN PlainDict(<< >>) ELSE initVals)
        vals2 == IF IsParams(prototype) /\ initVals # NoInitVals
                 THEN prototype ELSE PlainDict(<< >>)
        self1 == [self0 EXCEPT !.desc_list = descs_]
        scan == ScanDescriptors(descs_, 1, Properties__init__(<< >>), << >>, vals1, vals2)
        extra == IF initVals = NoInitVals THEN {} ELSE DOMAIN initVals.d \ DOMAIN scan.vals
    IN  IF scan.err # Ok
        THEN [err |-> scan.err, self |-> self1]
        ELSE LET self2 == [self1 EXCEPT !.descr_dict = freeze(scan.props)]
                 vals == [k \in DOMAIN scan.vals \cup extra |->
                            IF k \in extra THEN initVals.d[k] ELSE scan.vals[k]]
                 r == AssignAll(self2, vals,
                                order \o (CHOOSE s \in Orders(extra) : TRUE), 1)
             IN  IF r.err # Ok THEN r ELSE [err |-> Ok, self |-> seal(r.self)]

Params__init__(cls, prototype, initVals, order) ==
    LET self0 == [Properties__init__(<< >>) EXCEPT !.cls = cls]
        descs_ == IF IsParams(prototype) THEN protoS(prototype) ELSE prototype.desc_list
        vals1 == IF IsParams(prototype)
                 THEN (IF initVals = NoInitVals THEN prototype ELSE initVals)
                 ELSE (IF initVals = NoInitVals THEN PlainDict(<< >>) ELSE initVals)
        vals2 == IF IsParams(prototype) /\ initVals # NoInitVals
                 THEN prototype ELSE PlainDict(<< >>)
        self1 == [self0 EXCEPT !.desc_list = descs_]
        scan == ScanDescriptors(descs_, 1, Properties__init__(<< >>), << >>, vals1, vals2)
    IN  IF scan.err # Ok
        THEN [err |-> scan.err, self |-> self1]
        ELSE LET self2 == [self1 EXCEPT !.descr_dict = freeze(scan.props)]
                 r == AssignAll(self2, scan.vals, order, 1)
             IN  IF r.err # Ok THEN r ELSE [err |-> Ok, self |-> seal(r.self)]

\* the key set of _vals, whose iteration order Params.__init__ depends on
ValsKeys(prototype) ==
    LET descs_ == IF IsParams(prototype) THEN protoS(prototype) ELSE prototype.desc_list
    IN  {descs[descs_[i]].d.name : i \in DOMAIN descs_}

\* the record of an operation; o is the instance it acted on (or created),
\* k the key, v the value written or returned, err the outcome, src the
\* instance it read
\* (prototype, copied object), initVals the overrides, built the instance
\* Params.__init__ was building when it raised
Op(op, o, k, v, err) ==
    [op |-> op, o |-> o, k |-> k, v |-> v, err |-> err,
     src |-> "-", initVals |-> NoInitVals, built |-> Null]

Init ==
    /\ descs = DescPool
    /\ descriptors \in DescLists
    /\ objs = [o \in Objs |-> Null]
    /\ last = Op("init", "-", "-", None, Ok)

\* Properties(d)
NewProperties(o, d) ==
    /\ objs[o] = Null
    /\ objs' = [objs EXCEPT ![o] = Properties__init__(d)]
    /\ last' = Op("Properties", o, "-", None, Ok)
    /\ UNCHANGED <<descs, descriptors>>

\* mutant: the new container and its prototype container share one dict
NewParams_EntriesShared(o, cls, src, initVals) ==
    /\ objs[o] = Null
    /\ src # "list" => IsParams(objs[src])
    /\ LET prototype == IF src = "list" THEN DescList(descriptors) ELSE objs[src]
       IN  \E order \in Orders(ValsKeys(prototype)) :
           \E r \in {Params__init__(cls, prototype, initVals, order)} :
               /\ objs' = IF r.err = Ok
                          THEN [p \in Objs |->
                                  IF p = o THEN r.self
                                  ELSE IF p = src THEN [objs[p] EXCEPT !.d = r.self.d]
                                  ELSE objs[p]]
                          ELSE objs
               /\ last' = [Op(cls, o, "-", None, r.err) EXCEPT
                             !.src = src, !.initVals = initVals,
                             !.built = IF r.err = Ok THEN Null ELSE r.self]
    /\ UNCHANGED <<descs, descriptors>>

\* cls(prototype, initVals) for cls Params or HyperParams; src is "list" when
\* the prototype is the descriptor sequence, else the prototype instance
NewParams(o, cls, src, initVals) ==
    /\ objs[o] = Null
    /\ src # "list" => IsParams(objs[src])
    /\ LET prototype == IF src = "list" THEN DescList(descriptors) ELSE objs[src]
       IN  \E order \in Orders(ValsKeys(prototype)) :
           \E r \in {Params__init__(cls, prototype, initVals, order)} :
               /\ objs' = IF r.err = Ok THEN [objs EXCEPT ![o] = r.self] ELSE objs
               /\ last' = [Op(cls, o, "-", None, r.err) EXCEPT
                             !.src = src, !.initVals = initVals,
                             !.built = IF r.err = Ok THEN Null ELSE r.self]
    /\ UNCHANGED <<descs, descriptors>>

\* objs[o][k] = v
Set(o, k, v) ==
    LET r == SetItem(objs[o], k, v)
    IN  /\ objs[o] # Null
        /\ objs' = [objs EXCEPT ![o] = r.self]
        /\ last' = Op("set", o, k, v, r.err)
        /\ UNCHANGED <<descs, descriptors>>

\* objs[o][k]
Get(o, k) ==
    LET r == GetItem(objs[o], k)
    IN  /\ objs[o] # Null
        /\ last' = Op("get", o, k, r.val, r.err)
        /\ UNCHANGED <<descs, descriptors, objs>>

Freeze(o) ==
    /\ objs[o].cls \in {"Properties", "Params", "HyperParams"}
    /\ objs' = [objs EXCEPT ![o] = freeze(objs[o])]
    /\ last' = Op("freeze", o, "-", None, Ok)
    /\ UNCHANGED <<descs, descriptors>>

Seal(o) ==
    /\ objs[o].cls \in {"Properties", "Params", "HyperParams"}
    /\ objs' = [objs EXCEPT ![o] = seal(objs[o])]
    /\ last' = Op("seal", o, "-", None, Ok)
    /\ UNCHANGED <<descs, descriptors>>

\* objs[o] = copy.copy(objs[src])
Copy(o, src) ==
    /\ objs[o] = Null
    /\ objs[src].cls \in {"Properties", "Params", "HyperParams"}
    /\ objs' = [objs EXCEPT ![o] = Properties__copy__(objs[src])]
    /\ last' = [Op("copy", o, "-", None, Ok) EXCEPT !.src = src]
    /\ UNCHANGED <<descs, descriptors>>

\* bool is a subclass of int
PyBool(b) == [t |-> "bool", v |-> IF b THEN 1 ELSE 0]

\* k in objs[o]
In(o, k) ==
    /\ objs[o] # Null
    /\ last' = Op("in", o, k, PyBool(Contains(objs[o], k)), ContainsErr(objs[o], k))
    /\ UNCHANGED <<descs, descriptors, objs>>

\* the keys a write to a descriptor is attempted with: the four fields that
\* ParamDesc.__init__ stores, and a key it does not store
DescKeys == {"name", "text", "validator", "default", "a"}

\* the values a write to key k of a descriptor is attempted with: names and
\* texts for the name and the text, validators for the validator, values
\* otherwise
DescVals(k) ==
    CASE k = "name" -> Keys
      [] k = "text" -> {"rate", "kind"}
      [] k = "validator" -> {None, mandatory}
      [] OTHER -> Values

\* descs[i][k] = v for a descriptor of the schema; built is the descriptor
\* after the attempt
SetDesc(i, k, v) ==
    LET r == Properties_set_val_(descs[i], k, v)
    IN  /\ \E j \in DOMAIN descriptors : descriptors[j] = i
        /\ descs' = [descs EXCEPT ![i] = r.self]
        /\ last' = [Op("setdesc", "-", k, v, r.err) EXCEPT !.built = r.self]
        /\ UNCHANGED <<descriptors, objs>>

\* objs[o].protoD[k] = descs[i]
SetProtoD(o, k, i) ==
    LET r == Properties_set_val_(protoD(objs[o]), k, i)
    IN  /\ IsParams(objs[o])
        /\ objs' = [objs EXCEPT ![o].descr_dict = r.self]
        /\ last' = Op("setprotoD", o, k, None, r.err)
        /\ UNCHANGED <<descs, descriptors>>

InitValsArgs == {NoInitVals} \cup {PlainDict(d) : d \in Dicts}

\* a new instance takes the first free identity: the identities are
\* interchangeable, so the order they are handed out in is fixed
Fresh(o) == objs[o] = Null /\ (o = "o2" => objs["o1"] # Null)

\* A Base container is never a prototype and reads no descriptor, so a run
\* that starts with one works on it and on what is derived from it (its
\* copy, containers of the empty schema); the runs with a schema work on
\* schema-bound containers and their copies.  The writes to a descriptor and
\* to a name-to-descriptor table are attempted while an identity is still
\* free, that is before and after the first instance is built and worked on.
Next ==
    \/ \E o \in Objs, d \in Dicts :
          /\ descriptors = << >>
          /\ \A p \in Objs : objs[p] = Null
          /\ Fresh(o)
          /\ NewProperties(o, d)
    \/ \E o \in Objs, cls \in {"Params", "HyperParams"}, src \in Objs \cup {"list"},
          initVals \in InitValsArgs :
          Fresh(o) /\ NewParams(o, cls, src, initVals)
    \/ \E o \in Objs, k \in Keys, v \in Values : Set(o, k, v)
    \/ \E o \in Objs, k \in Keys : Get(o, k)
    \/ \E o \in Objs : Freeze(o)
    \/ \E o \in Objs : Seal(o)
    \/ \E o, src \in Objs : Fresh(o) /\ Copy(o, src)
    \/ \E o \in Objs, k \in Keys : In(o, k)
    \/ \E i \in DOMAIN descs, k \in DescKeys : \E v \in DescVals(k) :
          /\ \E p \in Objs : objs[p] = Null
          /\ SetDesc(i, k, v)
    \/ \E o \in Objs, k \in Keys, i \in DOMAIN descs :
          /\ \E p \in Objs : objs[p] = Null
          /\ SetProtoD(o, k, i)

Spec == Init /\ [][Next]_vars

(* ------------------------- vocabulary of the claims --------------------- *)
\* Base, Schema-Bound and Presence-Aware containers
IsContainer(x) == x.cls \in {"Properties", "Params", "HyperParams"}

\* the names the descriptor sequence of a schema-bound container declares
Declared(x) == {descs[x.desc_list[i]].d.name : i \in DOMAIN x.desc_list}

\* the descriptor of a declared name: the first one of the sequence with it
DescOf(x, name) ==
    descs[x.desc_list[CHOOSE i \in DOMAIN x.desc_list :
                        /\ descs[x.desc_list[i]].d.name = name
                        /\ \A j \in 1..(i - 1) : descs[x.desc_list[j]].d.name # name]]

\* the validator of the descriptor accepts v; no validator accepts everything
Accepts(desc, v) == desc.d.validator = None \/ ValidatorContains(desc.d.validator, v)

\* the validator of the descriptor explicitly accepts the marker
AcceptsMarker(desc) == desc.d.validator # None /\ ValidatorContains(desc.d.validator, None)

\* what every get on instance x returns
Reads(x) == [k \in Keys |-> GetItem(x, k)]

\* the last operation was a set on a frozen container
SetOnFrozen(l, os) == l.op = "set" /\ IsContainer(os[l.o]) /\ isFrozen(os[l.o])

(* ---------------------------------- C1 ---------------------------------- *)
\* C1 as stated: after freeze(), every set on a container of any kind fails
\* with AccessDenied, whatever the key and the value, and every get returns
\* what it returned before the attempt.
C1_FrozenSetAlwaysAccessDenied ==
    [][SetOnFrozen(last', objs) =>
          /\ last'.err = AccessDenied
          /\ Reads(objs'[last'.o]) = Reads(objs[last'.o])]_vars

\* the error a set on a frozen container fails with
FrozenSetError(x, k, v) ==
    IF ~IsParams(x) THEN AccessDenied
    ELSE IF k \notin Declared(x) THEN KeyNotFound
    ELSE IF v # None /\ ~Accepts(DescOf(x, k), v) THEN InvalidValue
    ELSE AccessDenied

\* C1 amended: after freeze(), every set fails and every get returns what it
\* returned before. On a Base container the failure is AccessDenied. On a
\* Schema-Bound or Presence-Aware container it is KeyNotFound for an
\* undeclared key, else InvalidValue for a value other than the marker that
\* the validator rejects, else AccessDenied.
C1_FrozenSetAlwaysFails ==
    [][SetOnFrozen(last', objs) =>
          /\ last'.err # Ok
          /\ last'.err = FrozenSetError(objs[last'.o], last'.k, last'.v)
          /\ Reads(objs'[last'.o]) = Reads(objs[last'.o])]_vars

\* a frozen schema-bound container has rejected a declared key's invalid
\* value with InvalidValue
C1_Witness ==
    /\ SetOnFrozen(last, objs)
    /\ IsParams(objs[last.o])
    /\ last.k \in Declared(objs[last.o])
    /\ last.err = InvalidValue

(* ---------------------------------- C2 ---------------------------------- *)
\* C2: once a container is frozen, no get, set, freeze, seal or copy changes
\* its entries: key set and values stay what they were when it was frozen.
C2_FrozenEntriesNeverChange ==
    [][\A o \in Objs :
          IsContainer(objs[o]) /\ isFrozen(objs[o]) =>
              /\ isFrozen(objs'[o])
              /\ objs'[o].d = objs[o].d]_vars

\* a frozen Base container holding a value has been asked to overwrite it
\* with another one
C2_Witness ==
    /\ SetOnFrozen(last, objs)
    /\ objs[last.o].cls = "Properties"
    /\ last.k \in DOMAIN objs[last.o].d
    /\ objs[last.o].d[last.k] # last.v

(* ---------------------------------- C3 ---------------------------------- *)
\* C3: the key set of the entries of a constructed Schema-Bound or
\* Presence-Aware container is exactly the set of declared names, in every
\* reachable state.
C3_KeysAreDeclaredNames ==
    \A o \in Objs : IsParams(objs[o]) => DOMAIN objs[o].d = Declared(objs[o])

\* a container built from descriptors alone, without overrides, has an entry
\* for a name that has no default, and a set on it has since failed
C3_Witness ==
    /\ last.op = "set"
    /\ last.err # Ok
    /\ IsParams(objs[last.o])
    /\ Cardinality(Declared(objs[last.o])) = 2
    /\ \E name \in Declared(objs[last.o]) :
          /\ DescOf(objs[last.o], name).d.default = None
          /\ objs[last.o].d[name] = None

(* ---------------------------------- C4 ---------------------------------- *)
\* C4: every value stored in a Schema-Bound or Presence-Aware container is
\* the marker or a value its descriptor's validator accepts.
C4_StoredValuesAreValid ==
    \A o \in Objs : IsParams(objs[o]) =>
        \A name \in DOMAIN objs[o].d :
            objs[o].d[name] = None \/ Accepts(DescOf(objs[o], name), objs[o].d[name])

\* a container built from a prototype container with overrides stores a
\* value other than the marker under a descriptor that has a validator
C4_Witness ==
    /\ last.op \in {"Params", "HyperParams"}
    /\ last.err = Ok
    /\ last.src \in Objs
    /\ last.initVals # NoInitVals
    /\ \E name \in DOMAIN objs[last.o].d :
          /\ objs[last.o].d[name] # None
          /\ DescOf(objs[last.o], name).d.validator # None

(* ---------------------------------- C5 ---------------------------------- *)
\* the last operation was a construction of a schema-bound container
IsNew(l) == l.op \in {"Params", "HyperParams"}

\* the prototype argument of the last construction
ProtoOf(l) == IF l.src = "list" THEN DescList(descriptors) ELSE objs[l.src]

\* no two descriptors of the sequence have the same name
NoDuplicates(x) ==
    \A i, j \in DOMAIN x.desc_list :
        i # j => descs[x.desc_list[i]].d.name # descs[x.desc_list[j]].d.name

InOverrides(l, name) == l.initVals # NoInitVals /\ name \in DOMAIN l.initVals.d

\* the spec's precedence: override, else the prototype container's stored
\* value, else the descriptor's default
StatedResolution(l, name) ==
    IF InOverrides(l, name) THEN l.initVals.d[name]
    ELSE IF l.src \in Objs THEN objs[l.src].d[name]
    ELSE DescOf(ProtoOf(l), name).d.default

\* C5 as stated: with no duplicate names, construction succeeds for any
\* overrides, and every declared name stores the stated resolution.
C5_ConstructionSucceedsWithStatedResolution ==
    (IsNew(last) /\ NoDuplicates(ProtoOf(last))) =>
        /\ last.err = Ok
        /\ \A name \in Declared(ProtoOf(last)) :
              objs[last.o].d[name] = StatedResolution(last, name)

\* the name is present in the prototype container: always in a Schema-Bound
\* one, in a Presence-Aware one iff its get succeeds
PresentIn(x, name) ==
    \/ x.cls = "Params"
    \/ x.d[name] # None
    \/ AcceptsMarker(DescOf(x, name))

\* override, else the prototype container's stored value if the name is
\* present in it, else the descriptor's default
Resolution(l, name) ==
    IF InOverrides(l, name) THEN l.initVals.d[name]
    ELSE IF l.src \in Objs /\ PresentIn(objs[l.src], name) THEN objs[l.src].d[name]
    ELSE DescOf(ProtoOf(l), name).d.default

\* C5 amended: with no duplicate names, construction succeeds iff every
\* resolved value is the marker or accepted by its validator, and fails with
\* InvalidValue otherwise; on success every declared name stores its
\* resolution, where a Presence-Aware prototype supplies its stored value only
\* for the names present in it.
C5_ConstructionResolvesByPrecedence ==
    (IsNew(last) /\ NoDuplicates(ProtoOf(last))) =>
        /\ last.err \in {Ok, InvalidValue}
        /\ last.err = Ok <=>
              \A name \in Declared(ProtoOf(last)) :
                  \/ Resolution(last, name) = None
                  \/ Accepts(DescOf(ProtoOf(last), name), Resolution(last, name))
        /\ last.err = Ok =>
              \A name \in Declared(ProtoOf(last)) :
                  objs[last.o].d[name] = Resolution(last, name)

\* a container has been built from a prototype container with overrides that
\* name one declared property and leave another one to the prototype
C5_Witness ==
    /\ IsNew(last)
    /\ last.err = Ok
    /\ last.src \in Objs
    /\ \E n1, n2 \in Declared(objs[last.o]) :
          InOverrides(last, n1) /\ ~InOverrides(last, n2)

(* ---------------------------------- C6 ---------------------------------- *)
\* C6 as stated: built from a prototype container of either kind, every
\* declared name that is not in overrides receives the prototype's stored
\* value, the marker included.
C6_PrototypeValueAlwaysInherited ==
    (IsNew(last) /\ last.err = Ok /\ last.src \in Objs) =>
        \A name \in Declared(objs[last.o]) :
            ~InOverrides(last, name) => objs[last.o].d[name] = objs[last.src].d[name]

\* C6 amended: built from a Schema-Bound prototype, every declared name not
\* in overrides receives the prototype's stored value, the marker included;
\* built from a Presence-Aware prototype, it receives the stored value when
\* that is not the marker or the validator accepts the marker, and the
\* descriptor's default otherwise.
C6_PrototypeValueInheritedWhenPresent ==
    (IsNew(last) /\ last.err = Ok /\ last.src \in Objs) =>
        \A name \in Declared(objs[last.o]) :
            ~InOverrides(last, name) =>
                objs[last.o].d[name] =
                    IF PresentIn(objs[last.src], name)
                    THEN objs[last.src].d[name]
                    ELSE DescOf(objs[last.o], name).d.default

\* a Presence-Aware prototype stores the marker for a name whose descriptor
\* has another default, and the container built from it stores that default
C6_Witness ==
    /\ IsNew(last)
    /\ last.err = Ok
    /\ last.src \in Objs
    /\ objs[last.src].cls = "HyperParams"
    /\ \E name \in Declared(objs[last.o]) :
          /\ ~InOverrides(last, name)
          /\ objs[last.src].d[name] = None
          /\ DescOf(objs[last.o], name).d.default # None
          /\ objs[last.o].d[name] = DescOf(objs[last.o], name).d.default

(* ---------------------------------- C7 ---------------------------------- *)
\* C7: on a non-frozen schema-bound container, a set of a declared name with
\* a value other than the marker succeeds and stores it iff the validator
\* accepts it, and fails with InvalidValue otherwise; a set of the marker
\* always succeeds and stores the marker.
C7_SetSucceedsIffAccepted ==
    (/\ last.op = "set"
     /\ IsParams(objs[last.o])
     /\ ~isFrozen(objs[last.o])
     /\ last.k \in Declared(objs[last.o])) =>
        IF last.v = None \/ Accepts(DescOf(objs[last.o], last.k), last.v)
        THEN last.err = Ok /\ objs[last.o].d[last.k] = last.v
        ELSE last.err = InvalidValue

\* the marker has been written to a property whose validator rejects it
C7_Witness ==
    /\ last.op = "set"
    /\ last.err = Ok
    /\ IsParams(objs[last.o])
    /\ last.k \in Declared(objs[last.o])
    /\ last.v = None
    /\ ~Accepts(DescOf(objs[last.o], last.k), None)

(* ---------------------------------- C8 ---------------------------------- *)
\* C8: get on a Presence-Aware container returns the stored value iff the
\* name is declared and the value is not the marker or the validator accepts
\* the marker, and fails with KeyNotFound otherwise; get of a declared name
\* on a plain Schema-Bound container returns the stored value, marker
\* included.
C8_PresenceAwareRead ==
    \A o \in Objs, k \in Keys :
        /\ objs[o].cls = "HyperParams" =>
              GetItem(objs[o], k) =
                  IF /\ k \in Declared(objs[o])
                     /\ (objs[o].d[k] # None \/ AcceptsMarker(DescOf(objs[o], k)))
                  THEN [err |-> Ok, val |-> objs[o].d[k]]
                  ELSE [err |-> KeyNotFound, val |-> None]
        /\ (objs[o].cls = "Params" /\ k \in Declared(objs[o])) =>
              GetItem(objs[o], k) = [err |-> Ok, val |-> objs[o].d[k]]

\* a get of a declared, unset mandatory property on a Presence-Aware
\* container has failed with KeyNotFound
C8_Witness ==
    /\ last.op = "get"
    /\ last.err = KeyNotFound
    /\ objs[last.o].cls = "HyperParams"
    /\ last.k \in Declared(objs[last.o])
    /\ DescOf(objs[last.o], last.k).d.validator = mandatory

(* ---------------------------------- C9 ---------------------------------- *)
\* C9: a set of an undeclared name on a schema-bound container, frozen or
\* not, fails with KeyNotFound and changes neither entries nor guards.
C9_UndeclaredSetIsKeyNotFound ==
    [][(/\ last'.op = "set"
        /\ IsParams(objs[last'.o])
        /\ last'.k \notin Declared(objs[last'.o])) =>
            /\ last'.err = KeyNotFound
            /\ objs' = objs]_vars

\* a frozen schema-bound container has rejected an undeclared name with
\* KeyNotFound
C9_Witness ==
    /\ SetOnFrozen(last, objs)
    /\ IsParams(objs[last.o])
    /\ last.k \notin Declared(objs[last.o])
    /\ last.err = KeyNotFound

(* ---------------------------------- C10 --------------------------------- *)
\* C10: a schema-bound container is sealed and not frozen at the end of its
\* construction, whatever the guards of its prototype, and accepts every
\* valid write to a declared name; it stays sealed ever after.
C10_BuiltSealedNotFrozen ==
    /\ \A o \in Objs : IsParams(objs[o]) => isSealed(objs[o])
    /\ (IsNew(last) /\ last.err = Ok) =>
          /\ ~isFrozen(objs[last.o])
          /\ \A k \in Declared(objs[last.o]), v \in Values :
                (v = None \/ Accepts(DescOf(objs[last.o], k), v)) =>
                    /\ SetItem(objs[last.o], k, v).err = Ok
                    /\ SetItem(objs[last.o], k, v).self.d[k] = v

\* a container has been built from a frozen prototype container
C10_Witness ==
    /\ IsNew(last)
    /\ last.err = Ok
    /\ last.src \in Objs
    /\ isFrozen(objs[last.src])
    /\ ~isFrozen(objs[last.o])
    /\ Declared(objs[last.o]) # {}

(* -------------------------------- C11 ----------------------------------- *)
\* C11: the guards only ever go from false to true. In every step, a
\* container stays a container, a frozen one stays frozen and a sealed one
\* stays sealed; freeze() leaves the container frozen and seal() leaves it
\* sealed, and on a container that already has the guard they change
\* nothing; a set whose key is the name of the flag, "_isFrozen", leaves
\* both guards as they were and, when it succeeds, only writes the entry
\* of that name.
C11_GuardsMonotonic ==
    [][/\ \A o \in Objs : IsContainer(objs[o]) =>
             /\ IsContainer(objs'[o])
             /\ isFrozen(objs[o]) => isFrozen(objs'[o])
             /\ isSealed(objs[o]) => isSealed(objs'[o])
       /\ last'.op = "freeze" =>
             /\ isFrozen(objs'[last'.o])
             /\ isFrozen(objs[last'.o]) => objs' = objs
       /\ last'.op = "seal" =>
             /\ isSealed(objs'[last'.o])
             /\ isSealed(objs[last'.o]) => objs' = objs
       /\ (last'.op = "set" /\ last'.k = "_isFrozen" /\ IsContainer(objs[last'.o])) =>
             /\ isFrozen(objs'[last'.o]) = isFrozen(objs[last'.o])
             /\ isSealed(objs'[last'.o]) = isSealed(objs[last'.o])
             /\ last'.err = Ok =>
                   objs'[last'.o].d = DictSet(objs[last'.o].d, "_isFrozen", last'.v)
      ]_vars

\* a frozen container holds an entry "_isFrozen" with a false value, and a
\* set of that entry to a false value has just been refused
C11_Witness ==
    /\ last.op = "set" /\ last.k = "_isFrozen" /\ last.v = PyInt(0)
    /\ last.err = AccessDenied
    /\ IsContainer(objs[last.o]) /\ isFrozen(objs[last.o])
    /\ "_isFrozen" \in DOMAIN objs[last.o].d
    /\ objs[last.o].d["_isFrozen"] = PyInt(0)

C13_DuplicateNamesFailFirst ==
    (IsNew(last) /\ last.src = "list" /\ ~NoDuplicates(DescList(descriptors))) =>
        /\ last.err = DuplicateDeclaration
        /\ last.built.d = << >>
        /\ objs[last.o] = Null

\* the sequence declares its first name twice and the override of that name
\* is a value the first descriptor's validator rejects; the construction
\* has failed with DuplicateDeclaration
C13_Witness ==
    /\ IsNew(last) /\ last.src = "list"
    /\ last.err = DuplicateDeclaration
    /\ Len(descriptors) >= 2
    /\ descs[descriptors[1]].d.name = descs[descriptors[2]].d.name
    /\ InOverrides(last, descs[descriptors[1]].d.name)
    /\ last.initVals.d[descs[descriptors[1]].d.name] # None
    /\ ~Accepts(descs[descriptors[1]], last.initVals.d[descs[descriptors[1]].d.name])

(* -------------------------------- C14 ----------------------------------- *)
\* C14: a set on a container ends with Ok, AccessDenied, KeyNotFound or
\* InvalidValue. When it fails, every instance is exactly as before, entries
\* and guards. When it succeeds, the container differs from before only in
\* the entry of the key written, which holds the value written; its guards,
\* its schema views, the other instances and the descriptors are unchanged.
C14_WriteFrame ==
    [][(last'.op = "set" /\ IsContainer(objs[last'.o])) =>
          /\ last'.err \in {Ok, AccessDenied, KeyNotFound, InvalidValue}
          /\ descs' = descs
          /\ IF last'.err # Ok
             THEN objs' = objs
             ELSE objs' = [objs EXCEPT ![last'.o].d = DictSet(@, last'.k, last'.v)]
      ]_vars

\* a set on a schema-bound container has just failed with InvalidValue and
\* the entry holds another value than the one refused
C14_Witness ==
    /\ last.op = "set" /\ last.err = InvalidValue
    /\ IsParams(objs[last.o])
    /\ last.k \in DOMAIN objs[last.o].d
    /\ objs[last.o].d[last.k] # last.v

(* -------------------------------- C15 ----------------------------------- *)
\* C15: copy() creates a plain mapping with the entries of the container
\* copied and none of its guard state, and leaves the container as it was;
\* every set on a copy succeeds, on a present key as on a new one, whatever
\* the guards of the original are, and changes only the copy; a set, freeze
\* or seal on the original changes only the original.
C15_CopyIsUnguardedAndIndependent ==
    [][/\ last'.op = "copy" =>
             objs' = [objs EXCEPT ![last'.o] = PlainDict(objs[last'.src].d)]
       /\ (last'.op = "set" /\ objs[last'.o].cls = "dict") =>
             /\ last'.err = Ok
             /\ objs' = [objs EXCEPT ![last'.o].d = DictSet(@, last'.k, last'.v)]
       /\ (last'.op \in {"set", "freeze", "seal"} /\ IsContainer(objs[last'.o])) =>
             \A p \in Objs : objs[p].cls = "dict" => objs'[p] = objs[p]
      ]_vars

\* a set has just added to a copy a key that the container next to it, frozen
\* and sealed, does not have
C15_Witness ==
    /\ last.op = "set" /\ last.err = Ok
    /\ objs[last.o].cls = "dict"
    /\ \E p \in Objs :
          /\ IsContainer(objs[p])
          /\ isFrozen(objs[p]) /\ isSealed(objs[p])
          /\ last.k \notin DOMAIN objs[p].d

(* -------------------------------- C16 ----------------------------------- *)
\* C16: every descriptor is frozen in every state, a set on one of its four
\* fields or on a new key fails with AccessDenied, and no step changes a
\* descriptor; the name-to-descriptor table of a schema-bound container is
\* frozen, a set on it fails with AccessDenied, and no step changes the
\* table or the descriptor sequence of a container.
C16_SchemaImmutable ==
    [][/\ \A i \in DOMAIN descs : isFrozen(descs[i])
       /\ last'.op = "setdesc" => last'.err = AccessDenied
       /\ last'.op = "setprotoD" => last'.err = AccessDenied
       /\ descs' = descs
       /\ \A o \in Objs : IsParams(objs[o]) =>
             /\ isFrozen(protoD(objs[o]))
             /\ protoD(objs'[o]) = protoD(objs[o])
             /\ protoS(objs'[o]) = protoS(objs[o])
      ]_vars

\* after a container has been built against it, a set of the default of a
\* descriptor has just been refused with AccessDenied
C16_Witness ==
    /\ last.op = "setdesc" /\ last.k = "default" /\ last.err = AccessDenied
    /\ \E o \in Objs, i \in DOMAIN descs :
          /\ IsParams(objs[o])
          /\ \E j \in DOMAIN protoS(objs[o]) : protoS(objs[o])[j] = i
          /\ last.built = descs[i]
          /\ descs[i].d.default # last.v

(* -------------------------------- C17 ----------------------------------- *)
\* C17: take a presence-aware container and a declared name whose validator
\* is missing or does not accept the marker. A successful set of the name to
\* the marker leaves it unreadable, get fails with KeyNotFound; an unreadable
\* name stays unreadable in every step that is not a successful set of the
\* name to a value other than the marker; such a set makes get return the
\* value written, and it succeeds whenever the container is not frozen and
\* the descriptor accepts the value.
C17_UnsetUntilSetAgain ==
    [][\A o \in Objs, name \in Keys :
          (objs[o].cls = "HyperParams" /\ name \in Declared(objs[o])
             /\ ~AcceptsMarker(DescOf(objs[o], name))) =>
          LET written == last'.op = "set" /\ last'.o = o /\ last'.k = name
                         /\ last'.err = Ok
              tried == last'.op = "set" /\ last'.o = o /\ last'.k = name
          IN  /\ (written /\ last'.v = None) =>
                    GetItem(objs'[o], name).err = KeyNotFound
              /\ (written /\ last'.v # None) =>
                    GetItem(objs'[o], name) = [err |-> Ok, val |-> last'.v]
              /\ (GetItem(objs[o], name).err = KeyNotFound
                    /\ ~(written /\ last'.v # None)) =>
                    GetItem(objs'[o], name).err = KeyNotFound
              /\ (tried /\ last'.v # None /\ ~isFrozen(objs[o])
                    /\ Accepts(DescOf(objs[o], name), last'.v)) =>
                    last'.err = Ok
      ]_vars

\* a set to the marker has just succeeded on a presence-aware container, on
\* a name whose validator rejects the marker, and the name is unreadable
C17_Witness ==
    /\ last.op = "set" /\ last.v = None /\ last.err = Ok
    /\ objs[last.o].cls = "HyperParams"
    /\ last.k \in Declared(objs[last.o])
    /\ DescOf(objs[last.o], last.k).d.validator # None
    /\ ~AcceptsMarker(DescOf(objs[last.o], last.k))
    /\ GetItem(objs[last.o], last.k).err = KeyNotFound

(* -------------------------------- C18 ----------------------------------- *)
\* C18: a construction from a prototype container leaves the prototype as it
\* was, entries and guards, whether it succeeds or fails, and the new
\* container has the descriptor sequence of the prototype; a set, freeze or
\* seal on a schema-bound container changes no other instance.
C18_PrototypeIsolation ==
    [][/\ (IsNew(last') /\ last'.src \in Objs) =>
             /\ objs'[last'.src] = objs[last'.src]
             /\ last'.err = Ok =>
                   protoS(objs'[last'.o]) = protoS(objs[last'.src])
       /\ (last'.op \in {"set", "freeze", "seal"} /\ IsParams(objs[last'.o])) =>
             \A p \in Objs \ {last'.o} : objs'[p] = objs[p]
      ]_vars

\* a container has just been built from a frozen prototype container, it
\* is not frozen and its entries differ from those of the prototype
C18_Witness ==
    /\ IsNew(last) /\ last.src \in Objs /\ last.err = Ok
    /\ isFrozen(objs[last.src]) /\ ~isFrozen(objs[last.o])
    /\ objs[last.o].d # objs[last.src].d

(* -------------------------------- C19 ----------------------------------- *)
\* the overrides of a construction without the entries whose name the
\* schema does not declare
DeclaredOverrides(l) ==
    IF l.initVals = NoInitVals
    THEN NoInitVals
    ELSE PlainDict([k \in DOMAIN l.initVals.d \cap Declared(ProtoOf(l)) |->
                      l.initVals.d[k]])

\* C19: a construction never fails with KeyNotFound; when it succeeds every
\* key of the new container is a declared name; and its outcome, the new
\* container or the failure and the container as far as it was built, is the
\* outcome of the same construction with the overrides that name no declared
\* property left out.
C19_UndeclaredOverridesIgnored ==
    IsNew(last) =>
        /\ last.err # KeyNotFound
        /\ last.err = Ok => DOMAIN objs[last.o].d \subseteq Declared(ProtoOf(last))
        /\ \E order \in Orders(ValsKeys(ProtoOf(last))) :
              LET r == Params__init__(last.op, ProtoOf(last), DeclaredOverrides(last), order)
              IN  /\ r.err = last.err
                  /\ r.self = IF r.err = Ok THEN objs[last.o] ELSE last.built

\* a container with a declared name has just been built with overrides for
\* that name and for a name its schema does not declare
C19_Witness ==
    /\ IsNew(last) /\ last.err = Ok
    /\ last.initVals # NoInitVals
    /\ \E k \in DOMAIN last.initVals.d : k \notin Declared(objs[last.o])
    /\ \E k \in DOMAIN last.initVals.d :
          k \in Declared(objs[last.o]) /\ objs[last.o].d[k] = last.initVals.d[k]

====
